---- MODULE Spec2Model ----
(***************************************************************************)
(* kairos: the scheduler loop (main.rs), the collection run and its page   *)
(* workers (collection.rs, page.rs, request.rs) and the SQLite-backed      *)
(* store (database.rs), as a state machine.                                *)
(*                                                                         *)
(* Every statement executed under one acquisition of the connection mutex  *)
(* is one step; a method that locks twice (start_collection, add_page,     *)
(* add_link) is two steps, and other tasks may run between them.           *)
(***************************************************************************)
EXTENDS Naturals, Integers, Sequences, FiniteSets, Bags, TLC

(***************************************************************************)
(* Bounds of the model.                                                    *)
(***************************************************************************)
\* ticks of the 24-hour interval within one behaviour
MaxTicks == 2
\* pages in the configuration, whole program
MaxPages == 1
\* links in one fetched page body, whole program
MaxLinks == 2
\* pages in the configuration, single run
MaxRunPages == 2
\* links in one fetched page body, single run
MaxBody == 3
\* rows the store clients may put in each table
MaxRows == 2
\* entries of the per-page counter a notification is composed from
MaxEntries == 5
\* build_with_max_retries(30)
MaxRetries == 30

(***************************************************************************)
(* Values.                                                                 *)
(***************************************************************************)
\* None of an Option, NULL of a column; identifiers start at 1
NULL == 0

\* page.rs Link: an (href, text) pair
Link(h, t) == [href |-> h, text |-> t]

\* page.rs Page (config.rs Page): name, url and the parsed selector
Page(n, u, s) == [name |-> n, url |-> u, selector |-> s]

\* Selector::to_css_string: the serialisation of a parsed selector; distinct
\* parsed selectors serialise to distinct strings
to_css_string(s) == <<"css", s>>

\* the page lists a configuration file may hold
PageLists ==
    { << Page("A", "http://foo/bar", "a") >>,
      << Page("A", "http://foo/bar", "a"), Page("B", "http://foo/baz", "a") >>,
      << Page("A", "http://foo/bar", "a"), Page("B", "http://foo/bar", "a") >> }

\* Option<T>: None, Some(x)
None == <<>>
Some(x) == <<x>>

\* config.rs Pushover (pushover.rs Pushover): token and user
Pushover == [token |-> "token", user |-> "user"]

\* the configurations with at most n pages, with and without a [pushover]
\* table
Configs(n) ==
    {[page |-> ps, pushover |-> po] :
        ps \in {l \in PageLists : Len(l) <= n}, po \in {None, Some(Pushover)}}

\* sequences over S of length at most n
SeqsUpTo(S, n) == UNION {[1..k -> S] : k \in 0..n}

Range(s) == {s[i] : i \in DOMAIN s}

(***************************************************************************)
(* State.                                                                  *)
(***************************************************************************)
VARIABLES
    \* the store: tables of the SQLite connection, rows in rowid order
    collections,        \* id -> [end_time, n_pages, n_links, n_new_links]
    pages,              \* id -> [url, selector]
    links,              \* id -> [page_id, href, text]
    links_collections,  \* bag of [link_id, collection_id]
    last_insert_rowid,  \* the connection's last_insert_rowid()
    \* the scheduler loop of process()
    config,             \* the configuration in effect
    current_task,       \* Option<CancellationToken>: NULL or a token
    nticks,             \* ticks so far; the token of run r is r
    cancelled,          \* tokens on which cancel() was called
    looping,            \* process() is in its loop
    \* the spawned tasks
    run,                \* run id -> the collect_and_notify task
    worker,             \* <<run id, page index>> -> the collect_page task
    \* tasks calling the store directly
    client,
    \* a call of request::get or request::post
    fetch,
    \* history
    end_writes,         \* collection id -> number of UPDATEs that hit the row
    ret_pages,          \* <<url, selector, id>> a client's add_page returned
    ret_links,          \* <<page_id, href, text, id>> a client's add_link returned
    obs,                \* the latest add_link or link_exists return, with what
                        \* was true of the store when the call began
    loaded              \* what the latest Config::load returned: "ok", "err"

storeVars == <<collections, pages, links, links_collections, last_insert_rowid>>
sigVars == <<config, current_task, nticks, cancelled>>
schedVars == <<sigVars, looping>>
taskVars == <<run, worker>>
clientHist == <<ret_pages, ret_links, obs>>
histVars == <<end_writes, clientHist, loaded>>
vars == <<storeVars, schedVars, taskVars, client, fetch, histVars>>

Runs == 1..MaxTicks
PageIdx == 1..MaxRunPages
Clients == {1, 2}

(***************************************************************************)
(* The store: one operator per SQL statement of database.rs, the effect of *)
(* the statement on the tables or the value it returns.                    *)
(***************************************************************************)
\* schema: links.page_id REFERENCES pages(id), enforced
ForeignKeyOk(page_id) == page_id \in DOMAIN pages

\* schema: UNIQUE (url, selector) on pages
PageConflict(url, css) ==
    \E i \in DOMAIN pages : pages[i].url = url /\ pages[i].selector = css

\* schema: UNIQUE (page_id, href, text) on links
LinkConflict(page_id, href, text) ==
    \E i \in DOMAIN links :
        /\ links[i].page_id = page_id
        /\ links[i].href = href
        /\ links[i].text = text

NewCollectionRow ==
    [end_time |-> FALSE, n_pages |-> NULL, n_links |-> NULL, n_new_links |-> NULL]

\* start_collection, first lock: INSERT INTO collections (start_time)
DbStartCollectionInsert ==
    /\ collections' = Append(collections, NewCollectionRow)
    /\ last_insert_rowid' = Len(collections) + 1
    /\ end_writes' = Append(end_writes, 0)
    /\ UNCHANGED <<pages, links, links_collections>>

\* start_collection, second lock: connection.last_insert_rowid()
DbStartCollectionRowid == last_insert_rowid

\* end_collection: UPDATE collections SET ... WHERE id = ?4
DbEndCollection(collection_id, n_pages, n_links, n_new_links) ==
    /\ collections' =
          [i \in DOMAIN collections |->
              IF i = collection_id
              THEN [end_time |-> TRUE, n_pages |-> n_pages,
                    n_links |-> n_links, n_new_links |-> n_new_links]
              ELSE collections[i]]
    /\ end_writes' =
          [i \in DOMAIN end_writes |->
              IF i = collection_id THEN end_writes[i] + 1 ELSE end_writes[i]]
    /\ UNCHANGED <<pages, links, links_collections, last_insert_rowid>>

\* add_page, first lock: INSERT OR IGNORE INTO pages (url, selector)
DbAddPageInsert(url, css) ==
    /\ IF PageConflict(url, css)
       THEN UNCHANGED <<pages, last_insert_rowid>>
       ELSE /\ pages' = Append(pages, [url |-> url, selector |-> css])
            /\ last_insert_rowid' = Len(pages) + 1
    /\ UNCHANGED <<collections, links, links_collections, end_writes>>

\* add_page, second lock: SELECT id FROM pages WHERE url = ?1 AND selector = ?2
\* (query_row: the first row, an error when there is none)
PageRows(url, css) ==
    {i \in DOMAIN pages : pages[i].url = url /\ pages[i].selector = css}

FirstOf(S) == CHOOSE i \in S : \A j \in S : i <= j

\* as DbAddPageSelect, with the selector left out of the WHERE clause
DbAddPageSelect_UrlOnly(url, css) ==
    IF {i \in DOMAIN pages : pages[i].url = url} = {}
    THEN NULL
    ELSE FirstOf({i \in DOMAIN pages : pages[i].url = url})

DbAddPageSelect(url, css) ==
    IF PageRows(url, css) = {} THEN NULL ELSE FirstOf(PageRows(url, css))

\* add_link, first lock: INSERT OR IGNORE INTO links (page_id, href, text);
\* a foreign key failure is not ignored, it is the statement's error
\* as DbAddLinkInsertOk, with the statement's error dropped
DbAddLinkInsertOk_Always(page_id) == TRUE

DbAddLinkInsertOk(page_id) == ForeignKeyOk(page_id)

\* as DbAddLinkInsert, with INSERT OR REPLACE: the conflicting row is deleted
\* and the new row gets a new id
DbAddLinkInsert_Replace(page_id, href, text) ==
    /\ IF ~DbAddLinkInsertOk(page_id)
       THEN UNCHANGED <<links, last_insert_rowid>>
       ELSE /\ links' = Append(
                  [i \in DOMAIN links |->
                      IF /\ links[i].page_id = page_id
                         /\ links[i].href = href
                         /\ links[i].text = text
                      THEN [page_id |-> NULL, href |-> "", text |-> ""]
                      ELSE links[i]],
                  [page_id |-> page_id, href |-> href, text |-> text])
            /\ last_insert_rowid' = Len(links) + 1
    /\ UNCHANGED <<collections, pages, links_collections, end_writes>>

DbAddLinkInsert(page_id, href, text) ==
    /\ IF ~DbAddLinkInsertOk(page_id) \/ LinkConflict(page_id, href, text)
       THEN UNCHANGED <<links, last_insert_rowid>>
       ELSE /\ links' = Append(links,
                  [page_id |-> page_id, href |-> href, text |-> text])
            /\ last_insert_rowid' = Len(links) + 1
    /\ UNCHANGED <<collections, pages, links_collections, end_writes>>

\* add_link, second lock: SELECT id FROM links WHERE page_id = ?1 AND
\* href = ?2 AND text = ?3
LinkRows(page_id, href, text) ==
    {i \in DOMAIN links :
        /\ links[i].page_id = page_id
        /\ links[i].href = href
        /\ links[i].text = text}

\* as DbAddLinkSelect, with last_insert_rowid() in place of the SELECT
DbAddLinkSelect_Rowid(page_id, href, text) == last_insert_rowid

DbAddLinkSelect(page_id, href, text) ==
    IF LinkRows(page_id, href, text) = {}
    THEN NULL
    ELSE FirstOf(LinkRows(page_id, href, text))

\* link_exists: SELECT COUNT(*) FROM links WHERE ...; count > 0
\* as DbLinkExists, with the text left out of the WHERE clause
DbLinkExists_NoText(page_id, href, text) ==
    \E i \in DOMAIN links : links[i].page_id = page_id /\ links[i].href = href

DbLinkExists(page_id, href, text) ==
    Cardinality(LinkRows(page_id, href, text)) > 0

\* add_link_collection: INSERT INTO links_collections (link_id,
\* collection_id, timestamp)
DbAddLinkCollection(link_id, collection_id) ==
    /\ links_collections' = links_collections (+)
          SetToBag({[link_id |-> link_id, collection_id |-> collection_id]})
    /\ last_insert_rowid' = BagCardinality(links_collections) + 1
    /\ UNCHANGED <<collections, pages, links, end_writes>>

(***************************************************************************)
(* Tasks.                                                                  *)
(***************************************************************************)
\* collection.rs CollectionStats and its Default
Stats(p, l, n) == [n_pages |-> p, n_links |-> l, n_new_links |-> n]
ZeroStats == Stats(0, 0, 0)

\* as StatsAdd, with n_links and n_new_links of the right operand exchanged
StatsAdd_Crossed(a, b) ==
    Stats(a.n_pages + b.n_pages, a.n_links + b.n_new_links,
          a.n_new_links + b.n_links)

\* impl Add for CollectionStats
StatsAdd(a, b) ==
    Stats(a.n_pages + b.n_pages, a.n_links + b.n_links,
          a.n_new_links + b.n_new_links)

\* IndexMap<String, u64>: a sequence of entries in insertion order
IndexOf(m, k) ==
    IF \E i \in DOMAIN m : m[i].key = k
    THEN CHOOSE i \in DOMAIN m : m[i].key = k
    ELSE NULL

\* IndexMap::insert: a new key goes last, a known key keeps its place
IndexMapInsert(m, k, v) ==
    IF IndexOf(m, k) = NULL
    THEN Append(m, [key |-> k, value |-> v])
    ELSE [m EXCEPT ![IndexOf(m, k)].value = v]

\* as IndexMapAddTo, with the value assigned instead of added
IndexMapAddTo_Assign(m, k, n) ==
    [m EXCEPT ![IndexOf(m, k)].value = n]

\* counter.entry(page_name).and_modify(|x| *x += n)
IndexMapAddTo(m, k, n) ==
    [m EXCEPT ![IndexOf(m, k)].value = @ + n]

\* the loop of try_new that fills the counter with a zero per page
RECURSIVE InitCounter(_, _)
InitCounter(ps, m) ==
    IF ps = <<>> THEN m
    ELSE InitCounter(Tail(ps), IndexMapInsert(m, Head(ps).name, 0))

\* ended: end_collection returned Ok; notified: pushover.send was called,
\* with message and title
NoRun ==
    [pc |-> "none", pages |-> <<>>, pushover |-> None, collection_id |-> NULL,
     row |-> NULL, awaiting |-> NULL, total |-> ZeroStats, counter |-> <<>>,
     ended |-> FALSE, notified |-> FALSE, message |-> <<>>, title |-> <<>>,
     result |-> "none"]

NoPage == Page("", "", "")

NoWorker ==
    [pc |-> "none", page |-> NoPage, page_id |-> NULL, body |-> <<>>,
     n_links |-> 0, n_new_links |-> 0, is_new |-> FALSE, link_id |-> NULL,
     err |-> "none", pre |-> {}, counted |-> {}]

\* op: the method that returned; found, ok: what it returned; valid: the
\* page_id named a page record; returned, begun: an add_link of the same
\* triple had returned Ok, had run its INSERT
NoObs ==
    [op |-> "none", found |-> FALSE, ok |-> TRUE, valid |-> TRUE,
     returned |-> FALSE, begun |-> FALSE]

\* a task between the two locks of a store method, with the method's
\* arguments; valid: page_id named a page record when the method began
NoClient == [op |-> "idle", a |-> NULL, b |-> "", c |-> "", valid |-> TRUE]

\* a call of get or post: n_past_retries as the retry middleware counts them,
\* outcome: how the latest attempt ended, result: what the call returned,
\* hit: cancel() was called on the token while the call was in flight, late:
\* attempts begun after that
NoFetch ==
    [pc |-> "idle", method |-> "none", n_past_retries |-> 0,
     outcome |-> "none", result |-> "none", hit |-> FALSE, late |-> 0]

EmptyStore ==
    /\ collections = <<>>
    /\ pages = <<>>
    /\ links = <<>>
    /\ links_collections = EmptyBag
    /\ last_insert_rowid = 0

InitTasks ==
    /\ current_task = NULL
    /\ nticks = 0
    /\ cancelled = {}
    /\ looping = TRUE
    /\ loaded = "ok"
    /\ run = [r \in Runs |-> NoRun]
    /\ worker = [w \in Runs \X PageIdx |-> NoWorker]
    /\ client = [c \in Clients |-> NoClient]
    /\ fetch = NoFetch
    /\ ret_pages = {}
    /\ ret_links = {}
    /\ obs = NoObs

\* process(): the configuration is loaded and the store opened on an empty
\* database; no collection has been started
Init ==
    /\ EmptyStore
    /\ end_writes = <<>>
    /\ config \in Configs(MaxPages)
    /\ InitTasks

(***************************************************************************)
(* The scheduler loop, main.rs process().                                  *)
(***************************************************************************)
\* as Tick, with the retained token left alone
Tick_NoCancel(max) ==
    /\ looping
    /\ nticks < max
    /\ nticks' = nticks + 1
    /\ cancelled' = cancelled
    /\ run' = [run EXCEPT ![nticks + 1] =
                  [NoRun EXCEPT !.pc = "start_insert", !.pages = config.page,
                                !.pushover = config.pushover]]
    /\ current_task' = nticks + 1
    /\ UNCHANGED <<storeVars, config, looping, worker, client, fetch, histVars>>

\* interval.tick(): cancel the retained token, spawn collect_and_notify with
\* a new token and retain it
Tick(max) ==
    /\ looping
    /\ nticks < max
    /\ nticks' = nticks + 1
    /\ cancelled' =
          IF current_task # NULL THEN cancelled \cup {current_task}
          ELSE cancelled
    /\ run' = [run EXCEPT ![nticks + 1] =
                  [NoRun EXCEPT !.pc = "start_insert", !.pages = config.page,
                                !.pushover = config.pushover]]
    /\ current_task' = nticks + 1
    /\ UNCHANGED <<storeVars, config, looping, worker, client, fetch, histVars>>

\* as ConfigOnLoad, with the file's content taken whatever load returned
ConfigOnLoad_Always(cur, ok, new) == new

\* match Config::load(..) { Ok(x) => config = x, Err(x) => log::error!(..) }
ConfigOnLoad(cur, ok, new) == IF ok THEN new ELSE cur

\* sighup.recv(): the configuration file is loaded again; ok: the file was
\* read and parsed, new: what a parse of the file gives
SigHup(n) ==
    /\ looping
    /\ \E ok \in BOOLEAN, new \in Configs(n) :
          /\ config' = ConfigOnLoad(config, ok, new)
          /\ loaded' = IF ok THEN "ok" ELSE "err"
    /\ UNCHANGED <<storeVars, current_task, nticks, cancelled, looping,
                   taskVars, client, fetch, end_writes, clientHist>>

\* sigusr1.recv(): cancel the retained token and drop it, or do nothing
SigUsr1 ==
    /\ looping
    /\ IF current_task # NULL
       THEN /\ cancelled' = cancelled \cup {current_task}
            /\ current_task' = NULL
       ELSE UNCHANGED <<cancelled, current_task>>
    /\ UNCHANGED <<storeVars, config, nticks, looping, taskVars, client,
                   fetch, histVars>>

(***************************************************************************)
(* A run: collect_and_notify and Collection::try_new.                      *)
(***************************************************************************)
\* start_collection, first lock; row records the row this INSERT created
RunStartInsert(r) ==
    /\ run[r].pc = "start_insert"
    /\ DbStartCollectionInsert
    /\ run' = [run EXCEPT ![r].pc = "start_rowid",
                          ![r].row = Len(collections) + 1]
    /\ UNCHANGED <<schedVars, worker, client, fetch, clientHist, loaded>>

\* the set of (href, text) pairs the store holds for a page key
StoredFor(page) ==
    {Link(links[i].href, links[i].text) : i \in
        {j \in DOMAIN links :
            /\ links[j].page_id \in DOMAIN pages
            /\ pages[links[j].page_id].url = page.url
            /\ pages[links[j].page_id].selector = to_css_string(page.selector)}}

\* start_collection returns; the for loop fills the counter and spawns one
\* collect_page task per page
RunSpawn(r) ==
    /\ run[r].pc = "start_rowid"
    /\ run' = [run EXCEPT
          ![r].pc = "await",
          ![r].collection_id = DbStartCollectionRowid,
          ![r].counter = InitCounter(run[r].pages, <<>>),
          ![r].awaiting = 1,
          ![r].total = ZeroStats]
    /\ worker' = [w \in Runs \X PageIdx |->
          IF w[1] = r /\ w[2] \in DOMAIN run[r].pages
          THEN [NoWorker EXCEPT !.pc = "add_page_insert",
                                !.page = run[r].pages[w[2]],
                                !.pre = StoredFor(run[r].pages[w[2]])]
          ELSE worker[w]]
    /\ UNCHANGED <<storeVars, schedVars, client, fetch, histVars>>

\* as OnTaskResult, with the task's error ending the loop
OnTaskResult_Propagate(l, result) == l /\ result = "ok"

\* the spawned task: if let Err(x) = collect_and_notify(..).await
\* { log::error!(..) }; whether process() stays in its loop
OnTaskResult(l, result) == l

\* collect_and_notify returns from the state rec: its locals are dropped (what
\* stays is the record of what the run did; the Collection that try_new
\* returned stays when it returned one)
RunReturn(r, rec, result) ==
    /\ run' = [run EXCEPT ![r] =
          [rec EXCEPT !.pc = "returned", !.result = result,
                      !.awaiting = NULL,
                      !.total = IF rec.ended THEN rec.total ELSE ZeroStats,
                      !.counter = IF rec.ended THEN rec.counter ELSE <<>>]]
    /\ looping' = OnTaskResult(looping, result)

\* the task returns Err
RunErr(r) == RunReturn(r, run[r], "err")

WorkerStats(w) == Stats(1, worker[w].n_links, worker[w].n_new_links)

\* one iteration of the loop over page_tasks: the awaited task has returned
RunAwait(r) ==
    /\ run[r].pc = "await"
    /\ run[r].awaiting \in DOMAIN run[r].pages
    /\ LET w == <<r, run[r].awaiting>>
           name == run[r].pages[run[r].awaiting].name
       IN  \/ /\ worker[w].pc = "done"
              /\ IF IndexOf(run[r].counter, name) = NULL
                 THEN RunErr(r)
                 ELSE /\ run' = [run EXCEPT
                            ![r].total = StatsAdd(@, WorkerStats(w)),
                            ![r].counter =
                                IndexMapAddTo(@, name, worker[w].n_new_links),
                            ![r].awaiting = @ + 1]
                      /\ UNCHANGED looping
           \/ /\ worker[w].pc = "failed"
              /\ RunErr(r)
    /\ UNCHANGED <<storeVars, sigVars, worker, client, fetch, histVars>>

\* every task was awaited: end_collection, then try_new returns Ok(Collection)
RunEnd(r) ==
    /\ run[r].pc = "await"
    /\ run[r].awaiting = Len(run[r].pages) + 1
    /\ DbEndCollection(run[r].collection_id, run[r].total.n_pages,
                       run[r].total.n_links, run[r].total.n_new_links)
    /\ run' = [run EXCEPT ![r].pc = "ended", ![r].ended = TRUE]
    /\ UNCHANGED <<schedVars, worker, client, fetch, clientHist, loaded>>

\* a store statement of the run returns an error (rusqlite::Error)
RunStoreError(r) ==
    /\ \/ run[r].pc = "start_insert"
       \/ run[r].pc = "await" /\ run[r].awaiting = Len(run[r].pages) + 1
    /\ RunErr(r)
    /\ UNCHANGED <<storeVars, sigVars, worker, client, fetch, histVars>>

(***************************************************************************)
(* The notification: send_notification and Pushover::send.                 *)
(***************************************************************************)
Digit == <<"0", "1", "2", "3", "4", "5", "6", "7", "8", "9">>

\* Display of an unsigned integer, as format! writes it
RECURSIVE Display(_)
Display(n) ==
    IF n < 10 THEN Digit[n + 1]
    ELSE Display(n \div 10) \o Digit[(n % 10) + 1]

\* collection.counter.iter().filter(|(_, x)| **x > 0)
Qualifying(counter) == SelectSeq(counter, LAMBDA e : e.value > 0)

\* format!("{n_new_links} for {page_name}")
Chunk(e) == Display(e.value) \o " for " \o e.key

\* the loop: n_pages counts the entries, chunks holds the first three
Chunks(counter) ==
    LET q == Qualifying(counter)
    IN  [i \in 1..(IF Len(q) <= 3 THEN Len(q) ELSE 3) |-> Chunk(q[i])]

\* chunks.join(sep)
RECURSIVE Join(_, _)
Join(chunks, sep) ==
    IF chunks = <<>> THEN ""
    ELSE IF Len(chunks) = 1 THEN chunks[1]
    ELSE chunks[1] \o sep \o Join(Tail(chunks), sep)

\* as OtherPages, counting the two named pages among the others
OtherPages_All(n_pages) == n_pages

\* n_pages - 2
OtherPages(n_pages) == n_pages - 2

\* let message = match n_pages { .. }
Message(counter) ==
    LET n_pages == Len(Qualifying(counter))
        chunks == Chunks(counter)
    IN  CASE n_pages = 1 -> chunks[1] \o "."
          [] n_pages = 2 -> chunks[1] \o " and " \o chunks[2] \o "."
          [] n_pages = 3 ->
                chunks[1] \o ", " \o chunks[2] \o ", and " \o chunks[3] \o "."
          [] OTHER ->
                Join(IF Len(chunks) >= 3
                     THEN [chunks EXCEPT ![3] =
                              "and some more for "
                              \o Display(OtherPages(n_pages))
                              \o " other pages."]
                     ELSE chunks,
                     ", ")

\* let title = { .. }
Title(x) ==
    IF x > 1 THEN Display(x) \o " new links" ELSE Display(x) \o " new link"

\* collect_and_notify after try_new returned Ok: the notifier is called when
\* there are new links and a [pushover] table, and request::post polls its
\* select! for the first time: a token already cancelled ends the call,
\* otherwise the request is in flight
RunNotify(r) ==
    /\ run[r].pc = "ended"
    /\ IF run[r].total.n_new_links > 0 /\ run[r].pushover # None
       THEN LET rec == [run[r] EXCEPT
                          !.notified = TRUE,
                          !.message = Message(run[r].counter),
                          !.title = Title(run[r].total.n_new_links)]
            IN  IF r \in cancelled
                THEN RunReturn(r, rec, "err")
                ELSE /\ run' = [run EXCEPT ![r] = [rec EXCEPT !.pc = "post"]]
                     /\ UNCHANGED looping
       ELSE RunReturn(r, run[r], "ok")
    /\ UNCHANGED <<storeVars, sigVars, worker, client, fetch, histVars>>

\* select! in request::post: cancellation_token.cancelled() completes
RunPostCancelled(r) ==
    /\ run[r].pc = "post"
    /\ r \in cancelled
    /\ RunReturn(r, run[r], "err")
    /\ UNCHANGED <<storeVars, sigVars, worker, client, fetch, histVars>>

\* the status codes the service may answer with
StatusCodes == {200, 400}

\* select! in request::post: request.send() completes with a response;
\* Pushover::send returns Ok when the status code is 200
RunPostResponse(r) ==
    /\ run[r].pc = "post"
    /\ \E status_code \in StatusCodes :
          RunReturn(r, run[r], IF status_code = 200 THEN "ok" ELSE "err")
    /\ UNCHANGED <<storeVars, sigVars, worker, client, fetch, histVars>>

\* select! in request::post: request.send() completes with an error
RunPostError(r) ==
    /\ run[r].pc = "post"
    /\ RunReturn(r, run[r], "err")
    /\ UNCHANGED <<storeVars, sigVars, worker, client, fetch, histVars>>

(***************************************************************************)
(* A page worker: collect_page, Page::request and request::get.            *)
(***************************************************************************)
\* the task returns Err(e): its locals are dropped
Fail(w, e) ==
    worker' = [worker EXCEPT ![w] = [NoWorker EXCEPT !.pc = "failed", !.err = e]]

\* the task returns Ok(CollectionStats { n_pages: 1, n_links, n_new_links });
\* body and pre stay as the record of what the task was given, counted as
\* the record of the links it logged as new
Done(w, body) ==
    worker' = [worker EXCEPT ![w] =
        [NoWorker EXCEPT !.pc = "done", !.body = body, !.pre = worker[w].pre,
                         !.n_links = worker[w].n_links,
                         !.n_new_links = worker[w].n_new_links,
                         !.counted = worker[w].counted]]

\* add_page, first lock
WorkerAddPageInsert(w) ==
    /\ worker[w].pc = "add_page_insert"
    /\ DbAddPageInsert(worker[w].page.url, to_css_string(worker[w].page.selector))
    /\ worker' = [worker EXCEPT ![w].pc = "add_page_select"]
    /\ UNCHANGED <<schedVars, run, client, fetch, clientHist, loaded>>

\* add_page, second lock; then page.request() polls request::get for the
\* first time: a token already cancelled ends the call, otherwise the request
\* is in flight
WorkerAddPageSelect(w) ==
    /\ worker[w].pc = "add_page_select"
    /\ LET id == DbAddPageSelect(worker[w].page.url,
                                 to_css_string(worker[w].page.selector))
       IN  IF id = NULL
           THEN Fail(w, "store")
           ELSE IF w[1] \in cancelled
           THEN Fail(w, "cancelled")
           ELSE worker' = [worker EXCEPT ![w].pc = "request",
                                         ![w].page_id = id]
    /\ UNCHANGED <<storeVars, schedVars, run, client, fetch, histVars>>

\* select! in request::get: cancellation_token.cancelled() completes
WorkerCancelled(w) ==
    /\ worker[w].pc = "request"
    /\ w[1] \in cancelled
    /\ Fail(w, "cancelled")
    /\ UNCHANGED <<storeVars, schedVars, run, client, fetch, histVars>>

\* select! in request::get: request.send() completes with a response, the
\* body is read and the links are extracted; the loop starts, or the task
\* returns when there is no link
WorkerResponse(w, bodies) ==
    /\ worker[w].pc = "request"
    /\ \E body \in bodies :
          IF body = <<>>
          THEN Done(w, body)
          ELSE worker' = [worker EXCEPT ![w].body = body,
                                        ![w].pc = "link_exists"]
    /\ UNCHANGED <<storeVars, schedVars, run, client, fetch, histVars>>

\* request.send() or response.text() returns an error, or the extraction
\* fails (parse_string, xpath::Context, findnodes)
WorkerRequestError(w) ==
    /\ worker[w].pc = "request"
    /\ \E e \in {"fetch", "extraction"} : Fail(w, e)
    /\ UNCHANGED <<storeVars, schedVars, run, client, fetch, histVars>>

\* as BumpNew, counting every link it meets
BumpNew_Always(n, exists) == n + 1

\* if !database.link_exists(..) { is_new = true; n_new_links += 1 }
BumpNew(n, exists) == IF ~exists THEN n + 1 ELSE n

\* the head of one loop iteration: n_links += 1 and link_exists
WorkerLinkExists(w) ==
    /\ worker[w].pc = "link_exists"
    /\ LET link == worker[w].body[worker[w].n_links + 1]
           exists == DbLinkExists(worker[w].page_id, link.href, link.text)
       IN  worker' = [worker EXCEPT
              ![w].n_links = @ + 1,
              ![w].is_new = ~exists,
              ![w].n_new_links = BumpNew(@, exists),
              ![w].counted = IF BumpNew(worker[w].n_new_links, exists)
                                   > worker[w].n_new_links
                             THEN @ \cup {link} ELSE @,
              ![w].pc = "add_link_insert"]
    /\ UNCHANGED <<storeVars, schedVars, run, client, fetch, histVars>>

\* add_link, first lock
WorkerAddLinkInsert(w) ==
    /\ worker[w].pc = "add_link_insert"
    /\ LET link == worker[w].body[worker[w].n_links]
       IN  /\ DbAddLinkInsert(worker[w].page_id, link.href, link.text)
           /\ IF DbAddLinkInsertOk(worker[w].page_id)
              THEN worker' = [worker EXCEPT ![w].pc = "add_link_select"]
              ELSE Fail(w, "store")
    /\ UNCHANGED <<schedVars, run, client, fetch, clientHist, loaded>>

\* add_link, second lock
WorkerAddLinkSelect(w) ==
    /\ worker[w].pc = "add_link_select"
    /\ LET link == worker[w].body[worker[w].n_links]
           id == DbAddLinkSelect(worker[w].page_id, link.href, link.text)
       IN  IF id = NULL
           THEN Fail(w, "store")
           ELSE worker' = [worker EXCEPT ![w].pc = "add_link_collection",
                                         ![w].link_id = id]
    /\ UNCHANGED <<storeVars, schedVars, run, client, fetch, histVars>>

\* add_link_collection, then the next iteration or Ok(CollectionStats)
WorkerAddLinkCollection(w) ==
    /\ worker[w].pc = "add_link_collection"
    /\ DbAddLinkCollection(worker[w].link_id, run[w[1]].collection_id)
    /\ IF worker[w].n_links = Len(worker[w].body)
       THEN Done(w, worker[w].body)
       ELSE worker' = [worker EXCEPT ![w].pc = "link_exists"]
    /\ UNCHANGED <<schedVars, run, client, fetch, clientHist, loaded>>

StorePcs ==
    {"add_page_insert", "add_page_select", "link_exists", "add_link_insert",
     "add_link_select", "add_link_collection"}

\* a store statement of the worker returns an error (rusqlite::Error)
WorkerStoreError(w) ==
    /\ worker[w].pc \in StorePcs
    /\ Fail(w, "store")
    /\ UNCHANGED <<storeVars, schedVars, run, client, fetch, histVars>>

(***************************************************************************)
(* The whole program.                                                      *)
(***************************************************************************)
Bodies == SeqsUpTo({Link("/foo", "bar")}, MaxLinks)

RunStep(r) ==
    \/ RunStartInsert(r)
    \/ RunSpawn(r)
    \/ RunAwait(r)
    \/ RunEnd(r)
    \/ RunStoreError(r)
    \/ RunNotify(r)
    \/ RunPostCancelled(r)
    \/ RunPostResponse(r)
    \/ RunPostError(r)

WorkerStep(w, bodies) ==
    \/ WorkerAddPageInsert(w)
    \/ WorkerAddPageSelect(w)
    \/ WorkerCancelled(w)
    \/ WorkerResponse(w, bodies)
    \/ WorkerRequestError(w)
    \/ WorkerLinkExists(w)
    \/ WorkerAddLinkInsert(w)
    \/ WorkerAddLinkSelect(w)
    \/ WorkerAddLinkCollection(w)
    \/ WorkerStoreError(w)

Next ==
    \/ SigHup(MaxPages)
    \/ Tick(MaxTicks)
    \/ SigUsr1
    \/ \E r \in Runs : RunStep(r)
    \/ \E w \in Runs \X PageIdx : WorkerStep(w, Bodies)

Spec == Init /\ [][Next]_vars

(***************************************************************************)
(* One run: the program from a start on the database file an earlier       *)
(* process left, up to its first tick's run, with a [pushover] table in    *)
(* the configuration.                                                      *)
(***************************************************************************)
RunLinks == {Link("/foo", "bar"), Link("/bar", "baz"), Link("/foo", "baz")}

BodiesRun == SeqsUpTo(RunLinks, MaxBody)

\* what the first page and the other pages may hold
BodiesOf(w) ==
    IF w[2] = 1 THEN BodiesRun ELSE {<<>>, <<Link("/foo", "bar")>>}

\* the link lists an earlier run found on http://foo/bar
PriorBodies ==
    { <<Link("/foo", "bar")>>, <<Link("/bar", "baz"), Link("/foo", "bar")>> }

\* the database file after an earlier process ran one collection of the page
\* http://foo/bar and found body there
PriorStore(body) ==
    /\ collections = <<[end_time |-> TRUE, n_pages |-> 1,
                        n_links |-> Len(body), n_new_links |-> Len(body)]>>
    /\ end_writes = <<1>>
    /\ pages = <<[url |-> "http://foo/bar", selector |-> to_css_string("a")]>>
    /\ links = [i \in DOMAIN body |->
                   [page_id |-> 1, href |-> body[i].href, text |-> body[i].text]]
    /\ links_collections =
          SetToBag({[link_id |-> i, collection_id |-> 1] : i \in DOMAIN body})
    /\ last_insert_rowid = 0

InitRun ==
    /\ \/ EmptyStore /\ end_writes = <<>>
       \/ \E body \in PriorBodies : PriorStore(body)
    /\ config \in {c \in Configs(MaxRunPages) : c.pushover # None}
    /\ InitTasks

NextRun ==
    \/ Tick(1)
    \/ SigUsr1
    \/ RunStep(1)
    \/ \E w \in {1} \X PageIdx : WorkerStep(w, BodiesOf(w))

SpecRun == InitRun /\ [][NextRun]_vars

(***************************************************************************)
(* Properties of the whole program.                                        *)
(***************************************************************************)
WorkersOf(r) == {<<r, p>> : p \in DOMAIN run[r].pages}

AnyWorkerFailed(r) == \E w \in WorkersOf(r) : worker[w].pc = "failed"

AllWorkersCompleted(r) ==
    \A w \in WorkersOf(r) : worker[w].pc \in {"done", "failed"}

\* run r called end_collection (and returned Ok)
Closed(r) == run[r].ended

\* the run that inserted collection row k
OwnerOf(k) == {r \in Runs : run[r].row = k}

\* run r has a task that still fetches or uses the store
Executing(r) ==
    \/ run[r].pc \in {"start_insert", "start_rowid", "await", "ended", "post"}
    \/ \E w \in WorkersOf(r) : worker[w].pc \notin {"none", "done", "failed"}

\* C1 (first half): a run with a failed page worker never calls
\* end_collection, and when it has returned it has returned an error.
FailedRunNeverCloses ==
    \A r \in Runs : AnyWorkerFailed(r) => ~Closed(r)

\* C1: if a page worker of a run failed, the run does not return Ok, it never
\* calls end_collection, and the collection row the run inserted keeps a null
\* end_time.
C1_FailedRunRowStaysOpen ==
    \A r \in Runs :
        AnyWorkerFailed(r) =>
            /\ ~Closed(r)
            /\ run[r].row # NULL => ~collections[run[r].row].end_time

\* C2: once cancel() was called on the token of a run that has not closed,
\* the run never calls end_collection.
C2_CancelledRunNeverCloses ==
    [][\A r \in Runs : (r \in cancelled /\ ~Closed(r)) => ~Closed(r)']_vars

\* C3: at most one run has tasks that still fetch or use the store.
C3_NoConcurrentRuns ==
    Cardinality({r \in Runs : Executing(r)}) <= 1

\* C4: the identifier start_collection returned to a run is the rowid of the
\* collection row that call inserted.
C4_StartCollectionReturnsOwnRow ==
    \A r \in Runs : run[r].collection_id # NULL => run[r].collection_id = run[r].row

\* C5: the end fields of a collection row are written at most once, and only
\* when every page worker of the run that inserted the row has completed.
C5_EndFieldsWrittenOnce ==
    [][\A k \in DOMAIN end_writes :
          end_writes'[k] > end_writes[k] =>
              /\ end_writes[k] = 0
              /\ \A r \in OwnerOf(k) : AllWorkersCompleted(r)]_vars

(***************************************************************************)
(* The store under tasks that call it directly and concurrently, as the    *)
(* tests of database.rs do from one task.                                  *)
(***************************************************************************)
PageKeys ==
    { <<"http://foo/bar", "a">>, <<"http://foo/baz", "a">>,
      <<"http://foo/bar", "a[href^='/foo']">> }

LinkArgs == { <<"/foo", "bar">>, <<"/foo", "baz">> }

PageIdArgs == {1, 2}

Idle(c) == client[c].op = "idle"

\* the triples for which an add_link has returned Ok
added == {<<x[1], x[2], x[3]>> : x \in ret_links}

\* add_page: the INSERT OR IGNORE
ClientAddPage(c, url, sel) ==
    /\ Idle(c)
    /\ Len(pages) < MaxRows \/ PageConflict(url, to_css_string(sel))
    /\ DbAddPageInsert(url, to_css_string(sel))
    /\ client' = [client EXCEPT ![c] =
          [NoClient EXCEPT !.op = "add_page", !.b = url, !.c = sel]]
    /\ UNCHANGED <<schedVars, taskVars, fetch, clientHist, loaded>>

\* add_link: the INSERT OR IGNORE; its error is the method's error
ClientAddLink(c, page_id, href, text) ==
    /\ Idle(c)
    /\ Len(links) < MaxRows \/ LinkConflict(page_id, href, text)
    /\ DbAddLinkInsert(page_id, href, text)
    /\ IF DbAddLinkInsertOk(page_id)
       THEN /\ client' = [client EXCEPT ![c] =
                  [NoClient EXCEPT !.op = "add_link", !.a = page_id,
                                   !.b = href, !.c = text,
                                   !.valid = page_id \in DOMAIN pages]]
            /\ UNCHANGED obs
       ELSE /\ obs' = [NoObs EXCEPT !.op = "add_link", !.ok = FALSE,
                                    !.valid = page_id \in DOMAIN pages]
            /\ UNCHANGED client
    /\ UNCHANGED <<schedVars, taskVars, fetch, ret_pages, ret_links, loaded>>

\* the second lock of the method the task is in, and its return
ClientReturn(c) ==
    /\ ~Idle(c)
    /\ client' = [client EXCEPT ![c] = NoClient]
    /\ \/ /\ client[c].op = "add_page"
          /\ LET id == DbAddPageSelect(client[c].b, to_css_string(client[c].c))
             IN  ret_pages' = IF id = NULL THEN ret_pages
                              ELSE ret_pages \cup
                                   {<<client[c].b, client[c].c, id>>}
          /\ UNCHANGED <<ret_links, obs>>
       \/ /\ client[c].op = "add_link"
          /\ LET id == DbAddLinkSelect(client[c].a, client[c].b, client[c].c)
                 t == <<client[c].a, client[c].b, client[c].c>>
             IN  /\ ret_links' = IF id = NULL THEN ret_links
                                 ELSE ret_links \cup {t \o <<id>>}
                 /\ obs' = [NoObs EXCEPT !.op = "add_link", !.ok = id # NULL,
                                         !.valid = client[c].valid]
          /\ UNCHANGED ret_pages
    /\ UNCHANGED <<storeVars, end_writes, schedVars, taskVars, fetch, loaded>>

\* an add_link with this triple has run its INSERT and has not returned
InFlight(t) ==
    \E c \in Clients :
        client[c].op = "add_link" /\ <<client[c].a, client[c].b, client[c].c>> = t

\* link_exists, one lock
ClientLinkExists(page_id, href, text) ==
    /\ LET t == <<page_id, href, text>>
       IN  obs' = [NoObs EXCEPT !.op = "link_exists",
                                !.found = DbLinkExists(page_id, href, text),
                                !.returned = t \in added,
                                !.begun = t \in added \/ InFlight(t)]
    /\ UNCHANGED <<storeVars, end_writes, schedVars, taskVars, client,
                   fetch, ret_pages, ret_links, loaded>>

NextStore ==
    \/ \E c \in Clients, k \in PageKeys : ClientAddPage(c, k[1], k[2])
    \/ \E c \in Clients, p \in PageIdArgs, l \in LinkArgs :
          ClientAddLink(c, p, l[1], l[2])
    \/ \E c \in Clients : ClientReturn(c)
    \/ \E p \in PageIdArgs, l \in LinkArgs : ClientLinkExists(p, l[1], l[2])

\* the store clients run beside a scheduler that has not ticked; its
\* configuration plays no part in their calls
InitStore ==
    /\ Init
    /\ Len(config.page) = 1
    /\ config.pushover = None

SpecStore == InitStore /\ [][NextStore]_vars

\* the (url, selector) key of the page worker w was spawned for
KeyOf(w) == <<run[w[1]].pages[w[2]].url, run[w[1]].pages[w[2]].selector>>

\* no other task was spawned for the page of w
OnlyTaskOn(w) ==
    \A r \in Runs : \A v \in WorkersOf(r) : v # w => KeyOf(v) # KeyOf(w)

\* C6: a page worker that is the only task on its page returns n_pages = 1,
\* n_links = the number of links extracted, repeats included, and
\* n_new_links = the number of distinct links extracted that the store did not
\* hold for the page when the worker was spawned.
C6_WorkerStats ==
    \A r \in Runs : \A w \in WorkersOf(r) :
        (worker[w].pc = "done" /\ OnlyTaskOn(w)) =>
            WorkerStats(w) =
                Stats(1, Len(worker[w].body),
                      Cardinality(Range(worker[w].body) \ worker[w].pre))

\* the only worker of its page found three different links, one of them
\* stored before, beside another page's worker
C6_Witness ==
    \E w \in WorkersOf(1) :
        /\ worker[w].pc = "done"
        /\ OnlyTaskOn(w)
        /\ Len(run[1].pages) = 2
        /\ Len(worker[w].body) = 3
        /\ Cardinality(Range(worker[w].body)) = 3
        /\ Cardinality(worker[w].pre) = 1
        /\ worker[w].n_new_links = 2

(***************************************************************************)
(* Properties of the store.                                                *)
(***************************************************************************)
\* C7: two add_page calls return the same identifier exactly when their
\* (url, selector) pairs are equal.
C7_AddPageSameIdIffSameKey ==
    \A x \in ret_pages, y \in ret_pages :
        (x[3] = y[3]) <=> (x[1] = y[1] /\ x[2] = y[2])

\* two keys have been returned, and two add_page calls of one key are both
\* between their INSERT and their SELECT
C7_Witness ==
    /\ Cardinality(ret_pages) = 2
    /\ \A c \in Clients : client[c].op = "add_page"
    /\ \A c \in Clients, d \in Clients :
          client[c].b = client[d].b /\ client[c].c = client[d].c

\* C8: the links table holds at most one row per (page_id, href, text), and
\* every add_link of one triple returns the same identifier.
C8_LinkUniquePerTriple ==
    /\ \A i \in DOMAIN links, j \in DOMAIN links :
          links[i] = links[j] => i = j
    /\ \A x \in ret_links, y \in ret_links :
          (x[1] = y[1] /\ x[2] = y[2] /\ x[3] = y[3]) => x[4] = y[4]

\* two add_link calls of a triple that an earlier call already returned are
\* both between their INSERT and their SELECT, with another triple stored
C8_Witness ==
    /\ Len(links) = 2
    /\ \A c \in Clients :
          /\ client[c].op = "add_link"
          /\ <<client[c].a, client[c].b, client[c].c>> \in added
    /\ \A c \in Clients, d \in Clients :
          <<client[c].a, client[c].b, client[c].c>> =
          <<client[d].a, client[d].b, client[d].c>>

\* C9: link_exists answers true when an add_link of the same triple returned
\* Ok before the call, and false when none had even run its INSERT; add_link
\* of other triples does not change the answer.
C9_LinkExistsExact ==
    obs.op = "link_exists" =>
        /\ obs.returned => obs.found
        /\ obs.found => obs.begun

\* link_exists answered false with two other triples stored
C9_Witness ==
    /\ obs.op = "link_exists"
    /\ ~obs.found
    /\ Len(links) = 2
    /\ Cardinality(added) = 2

InitSched ==
    /\ EmptyStore
    /\ end_writes = <<>>
    /\ config \in Configs(MaxRunPages)
    /\ InitTasks

NextSched ==
    \/ SigHup(MaxRunPages)
    \/ Tick(MaxTicks)
    \/ SigUsr1

SpecSched == InitSched /\ [][NextSched]_vars

(***************************************************************************)
(* Properties of the scheduler loop.                                       *)
(***************************************************************************)
\* C11: on every tick the token the scheduler retained is cancelled, the new
\* run's token is a new one that no cancel() has reached, and the token
\* retained afterwards is the new run's.
C11_TickCancelsAndRetainsFresh ==
    [][nticks' = nticks + 1 =>
          /\ current_task # NULL => current_task \in cancelled'
          /\ nticks' \notin cancelled'
          /\ run'[nticks'].pc = "start_insert"
          /\ current_task' = nticks']_vars

\* the second tick came while the first run still had tasks: the first run's
\* token is cancelled, the second run's is retained and is not
C11_Witness ==
    /\ nticks = 2
    /\ Executing(1)
    /\ 1 \in cancelled
    /\ 2 \notin cancelled
    /\ current_task = 2

\* C12: the cancel signal cancels the token of a live run and clears the
\* handle; with no live run it changes nothing.  (The handler's other branch
\* changes no variable.)
C12_CancelSignalOnlyForLiveRun ==
    [][(current_task # NULL /\ current_task' = NULL) =>
          /\ current_task \in cancelled'
          /\ Executing(current_task)]_vars

\* C13: a reload whose Config::load returns an error leaves the configuration
\* in effect as it was and the loop running, and a tick gives its run the
\* page list and the notifier of the configuration in effect.
C13_FailedReloadKeepsConfig ==
    [][/\ loaded' = "err" => (config' = config /\ looping')
       /\ nticks' = nticks + 1 =>
             /\ run'[nticks'].pages = config.page
             /\ run'[nticks'].pushover = config.pushover]_vars

\* the latest reload failed, after one that changed the notifier between the
\* two ticks, and the second run was given the configuration in effect
C13_Witness ==
    /\ loaded = "err"
    /\ nticks = 2
    /\ run[1].pushover # run[2].pushover
    /\ run[2].pushover = config.pushover
    /\ run[2].pages = config.page

\* C14: process() stays in its loop whatever a run returned (Ok, or the error
\* of a cancelled, failed or store-refused worker, of the store, or of the
\* notifier), and its three handlers can still be taken.
C14_LoopSurvivesRuns ==
    /\ looping
    /\ \A r \in Runs :
          run[r].pc = "returned" =>
              /\ ENABLED SigUsr1
              /\ ENABLED SigHup(MaxRunPages)
              /\ nticks < MaxTicks => ENABLED Tick(MaxTicks)

\* a run returned the notifier's error after it had closed its collection
C14_Witness ==
    /\ run[1].pc = "returned"
    /\ run[1].result = "err"
    /\ run[1].ended
    /\ run[1].notified
    /\ looping

(***************************************************************************)
(* The notification by itself: collect_and_notify from the return of       *)
(* try_new, for the Collection values try_new may return.                  *)
(***************************************************************************)
\* the n_new_links counts of one page
Counts == {0, 1, 12}

PageName(i) == "page" \o Display(i)

\* the counters of k pages, in page order
Counters(k) ==
    {[i \in 1..k |-> [key |-> PageName(i), value |-> v[i]]] :
        v \in [1..k -> Counts]}

RECURSIVE SumValues(_)
SumValues(counter) ==
    IF counter = <<>> THEN 0
    ELSE Head(counter).value + SumValues(Tail(counter))

\* try_new has returned Ok(Collection { stats, counter }) to the run of the
\* first tick
InitNotify ==
    /\ EmptyStore
    /\ end_writes = <<>>
    /\ config \in {c \in Configs(MaxPages) : c.pushover # None}
    /\ current_task = 1
    /\ nticks = 1
    /\ cancelled = {}
    /\ looping = TRUE
    /\ loaded = "ok"
    /\ \E k \in 1..MaxEntries : \E counter \in Counters(k) :
          run = [r \in Runs |->
                   IF r = 1
                   THEN [NoRun EXCEPT
                           !.pc = "ended", !.ended = TRUE,
                           !.pushover = config.pushover,
                           !.counter = counter,
                           !.total = Stats(k, SumValues(counter),
                                           SumValues(counter))]
                   ELSE NoRun]
    /\ worker = [w \in Runs \X PageIdx |-> NoWorker]
    /\ client = [c \in Clients |-> NoClient]
    /\ fetch = NoFetch
    /\ ret_pages = {}
    /\ ret_links = {}
    /\ obs = NoObs

NextNotify ==
    \/ SigUsr1
    \/ RunNotify(1)
    \/ RunPostCancelled(1)
    \/ RunPostResponse(1)
    \/ RunPostError(1)

SpecNotify == InitNotify /\ [][NextNotify]_vars

(***************************************************************************)
(* Properties of the notification.                                         *)
(***************************************************************************)
\* C15 (without the aborted runs): the notifier has been called for a run
\* exactly when try_new has returned Ok to it with a positive n_new_links
\* total and the run was given a notifier; end_collection came first.
NotifiedIffSuccessful ==
    \A r \in Runs :
        /\ run[r].notified =>
              /\ run[r].ended
              /\ run[r].total.n_new_links > 0
              /\ run[r].pushover # None
        /\ (run[r].pc \in {"post", "returned"} /\ run[r].ended
               /\ run[r].total.n_new_links > 0 /\ run[r].pushover # None)
              => run[r].notified

\* C15: the notifier is called for a run only after the run's end_collection,
\* with a positive n_new_links total and a notifier configured, and never
\* for a run whose cancellation was requested.
C15_NotifierOnlyAfterSuccessfulRun ==
    [][\A r \in Runs :
          (~run[r].notified /\ run'[r].notified) =>
              /\ run[r].ended
              /\ run[r].total.n_new_links > 0
              /\ run[r].pushover # None
              /\ r \notin cancelled]_vars

\* "<n> for <p>"
Clause(e) == ToString(e.value) \o " for " \o e.key

\* the message for a counter, as the four cases of the composition rule give
\* it for the entries with a count above zero
ExpectedMessage(counter) ==
    LET q == SelectSeq(counter, LAMBDA e : e.value > 0)
        k == Len(q)
    IN  CASE k = 1 -> Clause(q[1]) \o "."
          [] k = 2 -> Clause(q[1]) \o " and " \o Clause(q[2]) \o "."
          [] k = 3 -> Clause(q[1]) \o ", " \o Clause(q[2]) \o ", and "
                      \o Clause(q[3]) \o "."
          [] k >= 4 -> Clause(q[1]) \o ", " \o Clause(q[2]) \o ", "
                       \o "and some more for " \o ToString(k - 2)
                       \o " other pages."

\* C16: the message composed from a counter with k >= 1 entries above zero
\* is "<n> for <p>." for k = 1, "<n1> for <p1> and <n2> for <p2>." for
\* k = 2, "<n1> for <p1>, <n2> for <p2>, and <n3> for <p3>." for k = 3, and
\* the first two clauses and "and some more for <k-2> other pages." joined
\* with ", " for k >= 4; entries with count 0 do not appear.
C16_MessageComposition ==
    \A r \in Runs :
        run[r].notified => run[r].message = ExpectedMessage(run[r].counter)

\* a message was composed from five entries of which four are above zero
C16_Witness ==
    /\ run[1].notified
    /\ Len(run[1].counter) = 5
    /\ run[1].counter[2].value = 0
    /\ run[1].message =
          "1 for page1, 12 for page3, and some more for 2 other pages."

(***************************************************************************)
(* Properties of the aggregation.                                          *)
(***************************************************************************)
\* the distinct links of the body worker w extracted that the store did not
\* hold for its page when the run spawned it
NewOf(w) == Cardinality(Range(worker[w].body) \ worker[w].pre)

\* over the first n pages of run r
RECURSIVE SumNewOf(_, _)
SumNewOf(r, n) == IF n = 0 THEN 0 ELSE NewOf(<<r, n>>) + SumNewOf(r, n - 1)

RECURSIVE SumBodyLen(_, _)
SumBodyLen(r, n) ==
    IF n = 0 THEN 0 ELSE Len(worker[<<r, n>>].body) + SumBodyLen(r, n - 1)

\* the counter and the total that the page list, the bodies extracted and the
\* store at the start of the run determine
ExpectedCounter(r) ==
    [i \in DOMAIN run[r].pages |->
        [key |-> run[r].pages[i].name, value |-> NewOf(<<r, i>>)]]

ExpectedTotal(r) ==
    Stats(Len(run[r].pages), SumBodyLen(r, Len(run[r].pages)),
          SumNewOf(r, Len(run[r].pages)))

\* no two pages of run r have the same (url, selector)
DistinctPages(r) == \A w \in WorkersOf(r) : OnlyTaskOn(w)

\* C17 (for page lists without a repeated (url, selector)): the counter and
\* the total of a run that try_new returned Ok to are the ones its inputs
\* determine.
DeterministicForDistinctPages ==
    \A r \in Runs :
        (run[r].ended /\ DistinctPages(r)) =>
            /\ run[r].counter = ExpectedCounter(r)
            /\ run[r].total = ExpectedTotal(r)

\* C17: the counter and the total of a run that try_new returned Ok to are
\* determined by the page list, the links extracted from each page and the
\* store at the start of the run, whatever the order of the workers' steps:
\* the keys are in page order, each value is the number of distinct new links
\* of its page, and the total is the pointwise sum.
C17_AggregateDeterministic ==
    \A r \in Runs :
        run[r].ended =>
            /\ run[r].counter = ExpectedCounter(r)
            /\ run[r].total = ExpectedTotal(r)

(***************************************************************************)
(* request::get and request::post: one request under the retry middleware, *)
(* raced against the cancellation token of the run of the first tick.      *)
(***************************************************************************)
Methods == {"GET", "POST"}

\* how one attempt ends, as RetryTransientMiddleware classifies it: a
\* response with a success status, a response with a transient status (5xx,
\* 408, 429), a transient error (connect, timeout) and a fatal error
Outcomes == {"success", "transient_status", "transient_error", "fatal_error"}

Transient == {"transient_status", "transient_error"}

\* the policy's decision after a transient outcome
ShouldRetry(n_past_retries) == n_past_retries < MaxRetries

\* what send() resolves to once the middleware stops: the result of the
\* latest attempt, which for a transient status is Ok(response)
SendResult(outcome) ==
    IF outcome \in {"success", "transient_status"} THEN "response"
    ELSE "error"

FetchReturn(rec, result) ==
    fetch' = [rec EXCEPT !.pc = "returned", !.result = result,
                         !.hit = 1 \in cancelled]

\* get or post is called: select! polls both branches; send() cannot be
\* ready on its first poll
FetchCall(m) ==
    /\ fetch.pc = "idle"
    /\ IF 1 \in cancelled
       THEN fetch' = [fetch EXCEPT !.pc = "returned", !.method = m,
                                   !.result = "cancelled"]
       ELSE fetch' = [fetch EXCEPT !.pc = "attempt", !.method = m]
    /\ UNCHANGED <<storeVars, schedVars, taskVars, client, histVars>>

\* select! polls the send() branch and the attempt has ended; select! is not
\* biased, so this branch may be polled first although the token is cancelled
FetchAttemptDone(outcome) ==
    /\ fetch.pc = "attempt"
    /\ LET rec == [fetch EXCEPT !.outcome = outcome] IN
       IF outcome \in Transient /\ ShouldRetry(fetch.n_past_retries)
       THEN IF 1 \in cancelled
            THEN FetchReturn(rec, "cancelled")
            ELSE fetch' = [rec EXCEPT !.pc = "backoff"]
       ELSE FetchReturn(rec, SendResult(outcome))
    /\ UNCHANGED <<storeVars, schedVars, taskVars, client, histVars>>

\* select! polls the send() branch and the backoff wait has elapsed: the
\* middleware starts the next attempt; the cancelled() branch, polled after
\* it, ends the call if the token is cancelled
FetchBackoffDone ==
    /\ fetch.pc = "backoff"
    /\ LET rec == [fetch EXCEPT
                     !.n_past_retries = fetch.n_past_retries + 1] IN
       IF 1 \in cancelled
       THEN FetchReturn([rec EXCEPT !.late = fetch.late + 1], "cancelled")
       ELSE fetch' = [rec EXCEPT !.pc = "attempt"]
    /\ UNCHANGED <<storeVars, schedVars, taskVars, client, histVars>>

\* select! polls the cancelled() branch first: bail!("...: cancelled")
FetchCancelled ==
    /\ fetch.pc \in {"attempt", "backoff"}
    /\ 1 \in cancelled
    /\ FetchReturn(fetch, "cancelled")
    /\ UNCHANGED <<storeVars, schedVars, taskVars, client, histVars>>

\* the run of the first tick is about to call get or post
InitFetch ==
    /\ EmptyStore
    /\ end_writes = <<>>
    /\ config \in Configs(MaxPages)
    /\ current_task = 1
    /\ nticks = 1
    /\ cancelled = {}
    /\ looping = TRUE
    /\ loaded = "ok"
    /\ run = [r \in Runs |-> NoRun]
    /\ worker = [w \in Runs \X PageIdx |-> NoWorker]
    /\ client = [c \in Clients |-> NoClient]
    /\ fetch = NoFetch
    /\ ret_pages = {}
    /\ ret_links = {}
    /\ obs = NoObs

NextFetch ==
    \/ SigUsr1
    \/ \E m \in Methods : FetchCall(m)
    \/ \E outcome \in Outcomes : FetchAttemptDone(outcome)
    \/ FetchBackoffDone
    \/ FetchCancelled

SpecFetch == InitFetch /\ [][NextFetch]_vars

\* C18 (without the kind of the final result): the middleware never makes
\* more than MaxRetries retries, returns only after MaxRetries retries while
\* every attempt ends transiently, and returns an error at once when an
\* attempt ends with a fatal error.
FetchRetriesBounded ==
    /\ fetch.n_past_retries <= MaxRetries
    /\ (fetch.pc = "returned" /\ fetch.outcome \in Transient
          /\ fetch.result # "cancelled") =>
             fetch.n_past_retries = MaxRetries
    /\ fetch.outcome = "fatal_error" =>
          (fetch.pc = "returned" /\ fetch.result = "error")

\* C18: a fetch whose every attempt ends transiently makes MaxRetries
\* retries, no more, and then returns an error; an attempt that ends with a
\* fatal error is returned as an error without a retry.
C18_TransientFetchEndsInError ==
    /\ fetch.n_past_retries <= MaxRetries
    /\ (fetch.pc = "returned" /\ fetch.outcome \in Transient
          /\ fetch.result # "cancelled") =>
             (fetch.n_past_retries = MaxRetries /\ fetch.result = "error")
    /\ fetch.outcome = "fatal_error" =>
          (fetch.pc = "returned" /\ fetch.result = "error")

\* C19: a call the token was cancelled under while it was in flight returns
\* the cancelled error, and no attempt was started after the cancellation.
C19_CancelledInFlightReturnsCancelled ==
    (fetch.pc = "returned" /\ fetch.hit) =>
        (fetch.result = "cancelled" /\ fetch.late = 0)

\* C20: n_new_links <= n_links in every CollectionStats value: each worker's
\* at every step of its loop, every partial sum of the run, and the totals
\* end_collection wrote.
C20_NewLinksAtMostLinks ==
    /\ \A w \in Runs \X PageIdx : worker[w].n_new_links <= worker[w].n_links
    /\ \A r \in Runs : run[r].total.n_new_links <= run[r].total.n_links
    /\ \A i \in DOMAIN collections :
          collections[i].end_time = TRUE =>
              collections[i].n_new_links <= collections[i].n_links

\* end_collection wrote totals with fewer new links than links, summed over
\* two workers, one of which found only new links and one a known link
C20_Witness ==
    \E r \in Runs :
        /\ run[r].ended
        /\ Len(run[r].pages) = 2
        /\ \E w \in WorkersOf(r) :
              worker[w].n_links > 0 /\ worker[w].n_new_links = worker[w].n_links
        /\ \E w \in WorkersOf(r) : worker[w].n_new_links < worker[w].n_links
        /\ \E i \in DOMAIN collections :
              /\ collections[i].end_time = TRUE
              /\ collections[i].n_links = run[r].total.n_links
              /\ 0 < collections[i].n_new_links
              /\ collections[i].n_new_links < collections[i].n_links

\* the tasks spawned so far, whatever their run
Spawned == UNION {WorkersOf(r) : r \in Runs}

\* C21 (for a page no other task was spawned for): the worker counts a link
\* as new at most once and counts none that the store held before.
CountedOnceForDistinctPages ==
    \A w \in Spawned :
        OnlyTaskOn(w) =>
            /\ worker[w].n_new_links = Cardinality(worker[w].counted)
            /\ worker[w].counted \cap worker[w].pre = {}

\* C21: a (page, href, text) triple is counted as new at most once: a worker
\* counts it once at most, counts no triple the store held from an earlier
\* run, and two workers on the same page (url, selector) never both count it.
C21_CountedNewAtMostOnce ==
    \A w \in Spawned :
        /\ worker[w].n_new_links = Cardinality(worker[w].counted)
        /\ worker[w].counted \cap worker[w].pre = {}
        /\ \A v \in Spawned :
              (v # w /\ KeyOf(v) = KeyOf(w)) =>
                  worker[v].counted \cap worker[w].counted = {}

\* the number of links_collections rows that carry collection_id
SightingsOf(collection_id) ==
    BagCardinality(
        [e \in {x \in BagToSet(links_collections) :
                   x.collection_id = collection_id} |-> links_collections[e]])

\* C22 (for the run of the first tick alone): the rows that carry the
\* collection_id of a closed run are as many as the n_links it wrote.
SightingsMatchTotal ==
    \A r \in Runs :
        run[r].ended => SightingsOf(run[r].collection_id) = run[r].total.n_links

\* C22: when a run has closed, the links_collections rows carrying its
\* collection_id are as many as the n_links total it passed to end_collection:
\* one row for every link a worker of the run observed, new or not.
C22_SightingPerObservedLink ==
    \A r \in Runs :
        run[r].ended =>
            /\ SightingsOf(run[r].collection_id) = run[r].total.n_links
            /\ collections[run[r].collection_id].n_links = run[r].total.n_links

\* C23: no step, a cancellation or the return of a failed run included,
\* removes or alters a pages row, a links row or a links_collections row:
\* link_exists stays true for every stored triple, and add_page and add_link
\* keep returning the same id for every stored key and triple.
C23_PersistedRecordsKept ==
    [][/\ \A i \in DOMAIN pages :
             /\ i \in DOMAIN pages' /\ pages'[i] = pages[i]
             /\ DbAddPageSelect(pages[i].url, pages[i].selector)'
                   = DbAddPageSelect(pages[i].url, pages[i].selector)
       /\ \A i \in DOMAIN links :
             /\ i \in DOMAIN links' /\ links'[i] = links[i]
             /\ DbLinkExists(links[i].page_id, links[i].href, links[i].text)'
             /\ DbAddLinkSelect(links[i].page_id, links[i].href, links[i].text)'
                   = DbAddLinkSelect(links[i].page_id, links[i].href,
                                     links[i].text)
       /\ links_collections \sqsubseteq links_collections']_vars

\* the run was cancelled and returned an error after one of its workers had
\* stored a link and its sighting, and a later worker met the stored link
C23_Witness ==
    /\ 1 \in cancelled
    /\ run[1].pc = "returned"
    /\ run[1].result = "err"
    /\ \E w \in WorkersOf(1) : worker[w].pc = "failed"
    /\ \E w \in WorkersOf(1) :
          /\ worker[w].pc = "done"
          /\ worker[w].n_new_links > 0
          /\ worker[w].n_new_links < worker[w].n_links
    /\ SightingsOf(run[1].collection_id) > 1

\* C24: the scheduler holds a handle only while its run is in progress: once
\* the run has returned, with Ok or with an error, current_task is None, so
\* that SIGUSR1 and the next tick find nothing to cancel.
C24_HandleOnlyWhileRunning ==
    current_task # NULL => run[current_task].pc # "returned"

\* C25 (for a run try_new returned Ok to): every task of the run has
\* returned Ok.
ClosedRunHasNoLiveWorker ==
    \A r \in Runs :
        run[r].ended => \A w \in WorkersOf(r) : worker[w].pc = "done"

\* C25: when a run has returned, with Ok or with an error, every page worker
\* it spawned has finished: none is still to fetch or to write to the store
\* (pc "none": the run returned before it spawned the task).
C25_ReturnedRunHasNoLiveWorker ==
    \A r \in Runs :
        run[r].pc = "returned" =>
            \A w \in WorkersOf(r) :
                worker[w].pc \in {"none", "done", "failed"}

(***************************************************************************)
(* One run over page lists in which two pages may share a name.            *)
(***************************************************************************)
\* the page lists of PageLists, and one whose two pages have the same name
NameLists ==
    PageLists \cup
        { << Page("A", "http://foo/bar", "a"), Page("A", "http://foo/baz", "a") >> }

InitNames ==
    /\ \/ EmptyStore /\ end_writes = <<>>
       \/ \E body \in PriorBodies : PriorStore(body)
    /\ config \in {[page |-> ps, pushover |-> Some(Pushover)] : ps \in NameLists}
    /\ InitTasks

SpecNames == InitNames /\ [][NextRun]_vars

\* C26: in the Collection try_new returns, the values of the counter sum to
\* stats.n_new_links and stats.n_pages is the number of pages given, also
\* when two pages of the list share a name.
C26_CounterSumsToTotal ==
    \A r \in Runs :
        run[r].ended =>
            /\ SumValues(run[r].counter) = run[r].total.n_new_links
            /\ run[r].total.n_pages = Len(run[r].pages)

\* a run over two pages of one name returned Ok with new links on both pages:
\* the counter has the one key, with both pages' new links
C26_Witness ==
    \E r \in Runs :
        /\ run[r].ended
        /\ Len(run[r].pages) = 2
        /\ run[r].pages[1].name = run[r].pages[2].name
        /\ \A w \in WorkersOf(r) : worker[w].n_new_links > 0
        /\ Len(run[r].counter) = 1
        /\ run[r].counter[1].value = run[r].total.n_new_links
        /\ run[r].counter[1].value > worker[<<r, 1>>].n_new_links

====
